---- MODULE Spec2Model ----
(***************************************************************************)
(* Model of examples/i2c_eeprom.rs: page writes to and sequential reads    *)
(* from a Microchip 24LC64 EEPROM over I2C3, and the write-then-verify     *)
(* workflow of idle().                                                     *)
(*                                                                         *)
(* One step of the model is one attempt of one bus primitive (which the    *)
(* peripheral answers with Ok or with a transient error), or one piece of  *)
(* straight-line code between two such attempts.                           *)
(***************************************************************************)
EXTENDS Integers, Sequences, FiniteSets, TLC

----------------------------------------------------------------------------
(* Program constants *)

EEPROM_PAGE_SIZE == 32

RX_BUFFER_SIZE == 4

\* 0x1fff, the literal of both address checks
MemTop == 8191

\* the 24LC64 holds 64 Kbit
Capacity == 8192

\* mem_addr: u16
U16 == 65536

\* the device selectors: 0xa0 (write direction), 0xa1 (read direction)
SelWrite == 160

SelRead == 161

----------------------------------------------------------------------------
(* Bounds of the model *)

\* the longest record stream (DATA.len()) of the workflow
MaxRecords == 17

\* the most transient errors counted within one operation
MaxBusy == 2

\* the longest record stream of the runs checked for termination
MaxLiveRecords == 9

----------------------------------------------------------------------------
(* Pure helpers *)

\* a u32, kept as its two 16-bit halves: the value is hi * 2^16 + lo
Word(hi, lo) == [hi |-> hi, lo |-> lo]

\* the four bytes of a u32, most significant first
ToBeBytes(v) ==
    << v.hi \div 256, v.hi % 256, v.lo \div 256, v.lo % 256 >>

\* transmute(data.to_le()): the four bytes of a u32, least significant first
ToLeBytes(v) ==
    << v.lo % 256, v.lo \div 256, v.hi % 256, v.hi \div 256 >>

\* core::ptr::read(rx.as_ptr() as *const u32) on the little-endian target
FromLeBytes(b) ==
    Word(b[3] + 256 * b[4], b[1] + 256 * b[2])

\* [0; EEPROM_PAGE_SIZE]
ZeroPage == [j \in 1..EEPROM_PAGE_SIZE |-> 0]

\* [0; RX_BUFFER_SIZE]
ZeroRx == [j \in 1..RX_BUFFER_SIZE |-> 0]

\* if mem_addr > 0x0fff - RX_BUFFER_SIZE: the bound of a device half the size
ReadInvalidHalfDevice(a) == a > 4095 - RX_BUFFER_SIZE

\* the address check of read_eeprom
ReadInvalid(a) == a > MemTop - RX_BUFFER_SIZE

\* if mem_addr % PAGE != 0: the range of the address is not checked
WriteInvalidAlignOnly(a) == a % EEPROM_PAGE_SIZE # 0

\* the address check of write_eeprom without its alignment test
WriteInvalidRangeOnly(a) == a > MemTop - EEPROM_PAGE_SIZE

\* the address check of write_eeprom
WriteInvalid(a) ==
    a > MemTop - EEPROM_PAGE_SIZE \/ a % EEPROM_PAGE_SIZE # 0

\* mem_addr as u8 sent first: the address goes least-significant byte first
HighByteIsLow(a) == a % 256

\* (mem_addr >> 8) as u8
HighByte(a) == (a \div 256) % 256

\* mem_addr as u8
LowByte(a) == a % 256

\* a page buffer that starts from zeros at the first record of every page
StoreRecordFresh(pg, at, bytes) ==
    [j \in 1..EEPROM_PAGE_SIZE |->
        IF j > at /\ j <= at + 4 THEN bytes[j - at]
        ELSE IF at = 0 THEN 0 ELSE pg[j]]

\* page[page_index..(page_index + 4)].clone_from_slice(&data_bytes)
StoreRecord(pg, at, bytes) ==
    [j \in 1..EEPROM_PAGE_SIZE |->
        IF j > at /\ j <= at + 4 THEN bytes[j - at] ELSE pg[j]]

\* the record streams the model runs the workflow on
Streams == {"count", "bytes"}

\* record i (1-based) of a stream: 1, 2, 3, ... or the records whose bytes are
\* 1, 2, 3, 4 / 5, 6, 7, 8 / ...
StreamValue(s, i) ==
    IF s = "count" THEN Word(0, i)
    ELSE Word((4 * i - 1) + 256 * (4 * i), (4 * i - 3) + 256 * (4 * i - 2))

StreamOf(s, k) == [i \in 1..k |-> StreamValue(s, i)]

----------------------------------------------------------------------------
VARIABLES
    DATA,        \* the record stream (const DATA)
    pc,          \* position in idle() (or in the calling test driver)
    mem_addr,    \* idle: the write address
    page,        \* idle: the page buffer
    page_index,  \* idle: the fill offset
    data_index,  \* idle: records consumed by the page-fill loop
    rx,          \* idle: the receive buffer
    status_ok,   \* idle: the verification status
    vindex,      \* idle: data_index of the verification loop
    LED,         \* the indicator: "unset", "on", "off"
    op_kind,     \* the operation in flight: "none", "read", "write"
    op_pc,       \* its position
    op_addr,     \* its mem_addr argument
    op_i,        \* its loop index
    op_result,   \* its result: "none", "Ok", "InvalidMemory" ("Busy": never)
    op_t0,       \* length of the bus trace when it was called
    busy,        \* transient errors answered within it
    trace,       \* the primitives completed on the bus, in order
    dev_mem,     \* the device's memory (the bytes written so far)
    dev_cursor,  \* the device's internal address cursor
    dev_state,   \* the device's place in a transaction
    corrupt,     \* the address of the byte the device lost, or -1
    flushes,     \* history: the write_eeprom calls of idle
    compared     \* history: the comparisons of the verification loop

idleVars == << pc, mem_addr, page, page_index, data_index, status_ok, vindex, LED >>

opVars == << op_kind, op_pc, op_addr, op_i, op_result, op_t0, busy >>

devVars == << dev_mem, dev_cursor, dev_state >>

histVars == << flushes, compared >>

vars == << DATA, idleVars, rx, opVars, trace, devVars, corrupt, histVars >>

----------------------------------------------------------------------------
(* The 24LC64 behind the bus primitives *)

\* a byte of the device: what was written there, else the erased value
DevByte(a) == IF a \in DOMAIN dev_mem THEN dev_mem[a] ELSE 255

DevPut(a, b) == [x \in (DOMAIN dev_mem) \cup {a} |-> IF x = a THEN b ELSE DevByte(x)]

\* the cursor after a written data byte: it wraps inside the page
PageWrapNext(c) ==
    (c \div EEPROM_PAGE_SIZE) * EEPROM_PAGE_SIZE + ((c + 1) % EEPROM_PAGE_SIZE)

Entry(p, a) == [prim |-> p, arg |-> a]

\* i2c.start(sel) completed
I2cStart(sel) ==
    /\ trace' = Append(trace, Entry("start", sel))
    /\ dev_state' = IF sel = SelRead THEN "read" ELSE "addr_hi"
    /\ UNCHANGED << dev_mem, dev_cursor >>

\* i2c.write(b) completed
I2cWrite(b) ==
    /\ trace' = Append(trace, Entry("write", b))
    /\ CASE dev_state = "addr_hi" ->
              /\ dev_cursor' = (b * 256) % Capacity
              /\ dev_state' = "addr_lo"
              /\ UNCHANGED dev_mem
         [] dev_state = "addr_lo" ->
              /\ dev_cursor' = (dev_cursor + b) % Capacity
              /\ dev_state' = "data"
              /\ UNCHANGED dev_mem
         [] dev_state = "data" ->
              /\ dev_mem' = DevPut(dev_cursor, b)
              /\ dev_cursor' = PageWrapNext(dev_cursor)
              /\ UNCHANGED dev_state
         [] OTHER -> UNCHANGED devVars

\* i2c.read_ack() / i2c.read_nack() completed: the byte under the cursor
I2cRead(last) ==
    /\ trace' = Append(trace, Entry(IF last THEN "read_nack" ELSE "read_ack",
                                    DevByte(dev_cursor)))
    /\ dev_cursor' = (dev_cursor + 1) % Capacity
    /\ dev_state' = IF last THEN "idle" ELSE dev_state
    /\ UNCHANGED dev_mem

\* i2c.stop() completed
I2cStop ==
    /\ trace' = Append(trace, Entry("stop", 0))
    /\ dev_state' = "idle"
    /\ UNCHANGED << dev_mem, dev_cursor >>

\* a primitive answered with a transient error: nothing happened on the bus
\* (the count of these answers saturates; nothing limits their number)
I2cErr ==
    /\ busy' = IF busy < MaxBusy THEN busy + 1 ELSE busy
    /\ UNCHANGED << trace, devVars >>

----------------------------------------------------------------------------
(* read_eeprom and write_eeprom *)

\* entering read_eeprom / write_eeprom
CallOp(kind, addr) ==
    /\ op_kind' = kind
    /\ op_pc' = "check"
    /\ op_addr' = addr
    /\ op_i' = 0
    /\ op_result' = "none"
    /\ op_t0' = Len(trace)
    /\ busy' = 0

\* the caller has taken the result
ReturnOp ==
    /\ op_kind' = "none"
    /\ op_pc' = "idle"
    /\ op_addr' = 0
    /\ op_i' = 0
    /\ op_result' = "none"
    /\ op_t0' = 0
    /\ busy' = 0

\* i2c.<primitive>()?: a transient error ends the operation and is returned
WhileErrEscapes(ok, next) ==
    IF ok THEN [pc |-> next, res |-> IF next = "ret" THEN "Ok" ELSE op_result]
    ELSE [pc |-> "ret", res |-> "Busy"]

\* no retry loop: the operation goes on to its next step whatever the answer
WhileErrSkips(ok, next) ==
    [pc |-> next, res |-> IF next = "ret" THEN "Ok" ELSE op_result]

\* a retry loop with an iteration cap: after one transient error it goes on
WhileErrGivesUp(ok, next) ==
    IF ok \/ busy >= 1
    THEN [pc |-> next, res |-> IF next = "ret" THEN "Ok" ELSE op_result]
    ELSE [pc |-> op_pc, res |-> op_result]

\* while i2c.<primitive>().is_err() {}: where the operation stands, and with
\* what result, after one attempt of a primitive that answered ok or not
WhileErr(ok, next) ==
    IF ok THEN [pc |-> next, res |-> IF next = "ret" THEN "Ok" ELSE op_result]
    ELSE [pc |-> op_pc, res |-> op_result]

\* one attempt of the primitive at the operation's position
Attempt(ok, next, done) ==
    /\ op_pc' = WhileErr(ok, next).pc
    /\ op_result' = WhileErr(ok, next).res
    /\ IF ok THEN done /\ UNCHANGED busy ELSE I2cErr
    /\ UNCHANGED << op_kind, op_addr, op_t0 >>

\* read_eeprom with the address check made after the first start condition
ReadValidateAfterStart ==
    /\ op_kind = "read" /\ op_pc = "check"
    /\ I2cStart(SelWrite)
    /\ IF ReadInvalid(op_addr)
       THEN op_pc' = "ret" /\ op_result' = "InvalidMemory"
       ELSE op_pc' = "addr_hi" /\ UNCHANGED op_result
    /\ UNCHANGED << op_kind, op_addr, op_i, op_t0, busy >>
    /\ UNCHANGED << DATA, idleVars, rx, corrupt, histVars >>

\* read_eeprom: if mem_addr > 0x1fff - RX_BUFFER_SIZE { return Err(InvalidMemory) }
ReadValidate ==
    /\ op_kind = "read" /\ op_pc = "check"
    /\ IF ReadInvalid(op_addr)
       THEN op_pc' = "ret" /\ op_result' = "InvalidMemory"
       ELSE op_pc' = "start" /\ UNCHANGED op_result
    /\ UNCHANGED << op_kind, op_addr, op_i, op_t0, busy >>
    /\ UNCHANGED << DATA, idleVars, rx, trace, devVars, corrupt, histVars >>

\* write_eeprom: if mem_addr > 0x1fff - PAGE || mem_addr % PAGE != 0 { return Err }
WriteValidate ==
    /\ op_kind = "write" /\ op_pc = "check"
    /\ IF WriteInvalid(op_addr)
       THEN op_pc' = "ret" /\ op_result' = "InvalidMemory"
       ELSE op_pc' = "start" /\ UNCHANGED op_result
    /\ UNCHANGED << op_kind, op_addr, op_i, op_t0, busy >>
    /\ UNCHANGED << DATA, idleVars, rx, trace, devVars, corrupt, histVars >>

\* while i2c.start(0xa0).is_err() {}
OpStart ==
    /\ op_pc = "start"
    /\ \E ok \in BOOLEAN : Attempt(ok, "addr_hi", I2cStart(SelWrite))
    /\ UNCHANGED << DATA, idleVars, rx, op_i, corrupt, histVars >>

\* while i2c.write((mem_addr >> 8) as u8).is_err() {}
OpAddrHigh ==
    /\ op_pc = "addr_hi"
    /\ \E ok \in BOOLEAN : Attempt(ok, "addr_lo", I2cWrite(HighByte(op_addr)))
    /\ UNCHANGED << DATA, idleVars, rx, op_i, corrupt, histVars >>

\* while i2c.write(mem_addr as u8).is_err() {}
OpAddrLow ==
    /\ op_pc = "addr_lo"
    /\ \E ok \in BOOLEAN :
         Attempt(ok, IF op_kind = "read" THEN "restart" ELSE "data",
                 I2cWrite(LowByte(op_addr)))
    /\ UNCHANGED << DATA, idleVars, rx, op_i, corrupt, histVars >>

\* read_eeprom: while i2c.start(0xa1).is_err() {}
ReadRestart ==
    /\ op_kind = "read" /\ op_pc = "restart"
    /\ \E ok \in BOOLEAN : Attempt(ok, "read", I2cStart(SelRead))
    /\ UNCHANGED << DATA, idleVars, rx, op_i, corrupt, histVars >>

\* every byte is read with acknowledge: read_nack is never used
IsLastByteNever(i) == FALSE

\* if i == 0: the first byte is the one read without acknowledge
IsLastByteFirst(i) == i = 0

\* if i == RX_BUFFER_SIZE - 1: the byte that is read without acknowledge
IsLastByte(i) == i = RX_BUFFER_SIZE - 1

\* rx_buffer[i] = byte
RxStore(buf, i, byte) == [buf EXCEPT ![i + 1] = byte]

\* read_eeprom: rx_buffer[i] = loop { if let Ok(byte) = i2c.read_*() { break byte } }
ReadByte ==
    /\ op_kind = "read" /\ op_pc = "read"
    /\ \E ok \in BOOLEAN :
         /\ Attempt(ok, IF op_i + 1 < RX_BUFFER_SIZE THEN "read" ELSE "ret",
                    I2cRead(IsLastByte(op_i)))
         /\ IF ok
            THEN rx' = RxStore(rx, op_i, DevByte(dev_cursor)) /\ op_i' = op_i + 1
            ELSE UNCHANGED << rx, op_i >>
    /\ UNCHANGED << DATA, idleVars, corrupt, histVars >>

\* tx_buffer[EEPROM_PAGE_SIZE - 1 - i]: the page goes out last byte first
TxByteReversed(buf, i) == buf[EEPROM_PAGE_SIZE - i]

\* tx_buffer[0] for every i
TxByteFirst(buf, i) == buf[1]

\* tx_buffer[i]
TxByte(buf, i) == buf[i + 1]

\* write_eeprom: for i in 0..EEPROM_PAGE_SIZE { while i2c.write(tx_buffer[i]).is_err() {} }
WriteData ==
    /\ op_kind = "write" /\ op_pc = "data"
    /\ \E ok \in BOOLEAN :
         /\ Attempt(ok, IF op_i + 1 < EEPROM_PAGE_SIZE THEN "data" ELSE "stop",
                    I2cWrite(TxByte(page, op_i)))
         /\ op_i' = IF ok THEN op_i + 1 ELSE op_i
    /\ UNCHANGED << DATA, idleVars, rx, corrupt, histVars >>

\* write_eeprom: while i2c.stop().is_err() {}
WriteStop ==
    /\ op_kind = "write" /\ op_pc = "stop"
    /\ \E ok \in BOOLEAN : Attempt(ok, "ret", I2cStop)
    /\ UNCHANGED << DATA, idleVars, rx, op_i, corrupt, histVars >>

\* the steps of the operation in flight
OpStep ==
    \/ ReadValidate
    \/ WriteValidate
    \/ OpStart
    \/ OpAddrHigh
    \/ OpAddrLow
    \/ ReadRestart
    \/ ReadByte
    \/ WriteData
    \/ WriteStop

\* the positions of an operation at which it retries a primitive
Retrying ==
    op_pc \in {"start", "addr_hi", "addr_lo", "restart", "read", "data", "stop"}

----------------------------------------------------------------------------
(* idle(): the page-fill loop, the final flush, the verification loop *)

\* if page_index >= page.len() - 4: the page is flushed one record early
PageFullEarly(pi) == pi >= EEPROM_PAGE_SIZE - RX_BUFFER_SIZE

\* if page_index > page.len()
PageFullLate(pi) == pi > EEPROM_PAGE_SIZE

\* if page_index >= page.len()
PageFull(pi) == pi >= EEPROM_PAGE_SIZE

\* let remainder_len = DATA.len() * 4 % EEPROM_PAGE_SIZE
RemainderLen == (Len(DATA) * 4) % EEPROM_PAGE_SIZE

\* let mem_addr: u16 = data_index as u16: the index taken for the byte offset
RecordAddrIndex(i) == i % U16

\* let mem_addr: u16 = data_index as u16 * 4
RecordAddr(i) == ((i % U16) * 4) % U16

\* if read_data == *written_data
MismatchInverted(read_data, written_data) == read_data = written_data

\* if read_data != *written_data
Mismatch(read_data, written_data) == read_data # written_data

\* the verification loop without its break
AfterMismatchContinue == "verify"

\* where the verification loop goes after a mismatch: break
AfterMismatch == "led"

\* let _ = write_eeprom(..): the result of the flush is dropped
UnwrapIgnored(result, next) == next

\* write_eeprom(..).unwrap(): where idle goes on after the call; Err panics
Unwrap(result, next) == IF result = "Ok" THEN next ELSE "panic"

\* the device address is left where it is after a flush
NextPageAddrStays(a) == a

\* mem_addr += EEPROM_PAGE_SIZE as u16
NextPageAddr(a) == (a + EEPROM_PAGE_SIZE) % U16

\* one iteration of the page-fill loop, up to the call of write_eeprom
FillRecord ==
    /\ pc = "fill" /\ data_index < Len(DATA)
    /\ IF page_index + 4 > EEPROM_PAGE_SIZE
       THEN \* the slice page[page_index..page_index + 4] is out of range
            /\ pc' = "panic"
            /\ UNCHANGED << page, page_index, data_index, opVars >>
       ELSE /\ page' = StoreRecord(page, page_index, ToLeBytes(DATA[data_index + 1]))
            /\ data_index' = data_index + 1
            /\ IF PageFull(page_index + 4)
               THEN /\ page_index' = 0
                    /\ pc' = "flush"
                    /\ CallOp("write", mem_addr)
               ELSE /\ page_index' = page_index + 4
                    /\ pc' = "fill"
                    /\ UNCHANGED opVars
    /\ UNCHANGED << DATA, mem_addr, status_ok, vindex, LED, rx, trace, devVars,
                    corrupt, histVars >>

\* one write_eeprom call of idle, as the history keeps it
FlushRecord(final) ==
    [addr |-> op_addr, page |-> page, final |-> final, result |-> op_result,
     records |-> data_index]

\* write_eeprom(&i2c, mem_addr, &page).unwrap(); mem_addr += EEPROM_PAGE_SIZE as u16
FlushReturn ==
    /\ pc = "flush" /\ op_pc = "ret"
    /\ flushes' = Append(flushes, FlushRecord(FALSE))
    /\ pc' = Unwrap(op_result, "fill")
    /\ mem_addr' = IF pc' = "fill" THEN NextPageAddr(mem_addr) ELSE mem_addr
    /\ ReturnOp
    /\ UNCHANGED << DATA, page, page_index, data_index, status_ok, vindex, LED, rx,
                    trace, devVars, corrupt, compared >>

\* the stream is exhausted: if remainder_len > 0 { write_eeprom(...) }
FillDone ==
    /\ pc = "fill" /\ data_index = Len(DATA)
    /\ IF RemainderLen > 0
       THEN pc' = "flush_final" /\ CallOp("write", mem_addr)
       ELSE pc' = "verify" /\ UNCHANGED opVars
    /\ UNCHANGED << DATA, mem_addr, page, page_index, data_index, status_ok, vindex,
                    LED, rx, trace, devVars, corrupt, histVars >>

\* the final write_eeprom(&i2c, mem_addr, &page).unwrap()
FinalFlushReturn ==
    /\ pc = "flush_final" /\ op_pc = "ret"
    /\ flushes' = Append(flushes, FlushRecord(TRUE))
    /\ pc' = Unwrap(op_result, "verify")
    /\ ReturnOp
    /\ UNCHANGED << DATA, mem_addr, page, page_index, data_index, status_ok, vindex,
                    LED, rx, trace, devVars, corrupt, compared >>

\* the verification loop: match read_eeprom(&i2c, mem_addr, &mut rx)
VerifyNext ==
    /\ pc = "verify" /\ vindex < Len(DATA)
    /\ pc' = "reading"
    /\ CallOp("read", RecordAddr(vindex))
    /\ UNCHANGED << DATA, mem_addr, page, page_index, data_index, status_ok, vindex,
                    LED, rx, trace, devVars, corrupt, histVars >>

\* one read-back of a record, as the history keeps it
CompareRecord ==
    [index |-> vindex, addr |-> op_addr, bytes |-> rx, read |-> FromLeBytes(rx),
     written |-> DATA[vindex + 1]]

\* Err(_) => {} ; Ok(_) => { if read_data != *written_data { status_ok = false; break } }
VerifyReturn ==
    /\ pc = "reading" /\ op_pc = "ret"
    /\ IF op_result = "Ok"
       THEN /\ compared' = Append(compared, CompareRecord)
            /\ IF Mismatch(FromLeBytes(rx), DATA[vindex + 1])
               THEN status_ok' = FALSE /\ pc' = AfterMismatch
               ELSE pc' = "verify" /\ UNCHANGED status_ok
       ELSE pc' = "verify" /\ UNCHANGED << status_ok, compared >>
    /\ vindex' = IF pc' = "verify" THEN vindex + 1 ELSE vindex
    /\ ReturnOp
    /\ UNCHANGED << DATA, mem_addr, page, page_index, data_index, LED, rx, trace,
                    devVars, corrupt, flushes >>

\* the verification loop has gone through DATA
VerifyDone ==
    /\ pc = "verify" /\ vindex >= Len(DATA)
    /\ pc' = "led"
    /\ UNCHANGED << DATA, mem_addr, page, page_index, data_index, status_ok, vindex,
                    LED, rx, opVars, trace, devVars, corrupt, histVars >>

\* if status_ok { LED.off() } else { LED.on() }
SetLedInverted ==
    /\ pc = "led"
    /\ LED' = IF status_ok THEN "off" ELSE "on"
    /\ pc' = "bkpt"
    /\ UNCHANGED << DATA, mem_addr, page, page_index, data_index, status_ok, vindex,
                    rx, opVars, trace, devVars, corrupt, histVars >>

\* if status_ok { LED.on() } else { LED.off() }
SetLed ==
    /\ pc = "led"
    /\ LED' = IF status_ok THEN "on" ELSE "off"
    /\ pc' = "bkpt"
    /\ UNCHANGED << DATA, mem_addr, page, page_index, data_index, status_ok, vindex,
                    rx, opVars, trace, devVars, corrupt, histVars >>

\* loop { rtfm::bkpt() }
Bkpt ==
    /\ pc = "bkpt"
    /\ UNCHANGED vars

\* the device loses one byte of the stored records before the verification
DeviceCorrupt ==
    /\ pc = "verify" /\ vindex = 0 /\ corrupt = -1
    /\ \E a \in 0..(4 * Len(DATA) - 1) :
         /\ dev_mem' = DevPut(a, (DevByte(a) + 1) % 256)
         /\ corrupt' = a
    /\ UNCHANGED << DATA, idleVars, rx, opVars, trace, dev_cursor, dev_state, histVars >>

InitOp ==
    /\ op_kind = "none" /\ op_pc = "idle" /\ op_addr = 0 /\ op_i = 0
    /\ op_result = "none" /\ op_t0 = 0 /\ busy = 0

InitDevice ==
    /\ trace = << >>
    /\ dev_mem = [x \in {} |-> 0]
    /\ dev_cursor = 0
    /\ dev_state = "idle"
    /\ corrupt = -1

\* idle is entered: the locals of the page-fill loop, nothing on the bus yet
InitIdle ==
    /\ pc = "fill"
    /\ mem_addr = 0
    /\ page = ZeroPage
    /\ page_index = 0
    /\ data_index = 0
    /\ rx = ZeroRx
    /\ status_ok = TRUE
    /\ vindex = 0
    /\ LED = "unset"
    /\ InitOp
    /\ InitDevice
    /\ flushes = << >>
    /\ compared = << >>

Init ==
    /\ \E s \in Streams : \E k \in 0..MaxRecords : DATA = StreamOf(s, k)
    /\ InitIdle

Next ==
    \/ FillRecord
    \/ FlushReturn
    \/ FillDone
    \/ FinalFlushReturn
    \/ VerifyNext
    \/ VerifyReturn
    \/ VerifyDone
    \/ SetLed
    \/ Bkpt
    \/ DeviceCorrupt
    \/ OpStep

Spec == Init /\ [][Next]_vars

----------------------------------------------------------------------------
(* read_eeprom and write_eeprom called on their own: a read at any 16-bit *)
(* address and then a page write at the same address (SpecCall), or a     *)
(* page write at any multiple of the page size (SpecRoundTrip); a page    *)
(* write that returned Ok is followed by the read-back of the page, four  *)
(* bytes at a time.                                                       *)

\* the records of one page, packed as the page-fill loop packs them
PackPage(records) ==
    [j \in 1..EEPROM_PAGE_SIZE |->
        ToLeBytes(records[((j - 1) \div 4) + 1])[((j - 1) % 4) + 1]]

\* the records one page holds
RecordsPerPage == EEPROM_PAGE_SIZE \div RX_BUFFER_SIZE

\* read_eeprom(&i2c, mem_addr, &mut rx) has returned;
\* write_eeprom(&i2c, mem_addr, &page) is called
ReadReturned ==
    /\ pc = "in_read" /\ op_pc = "ret"
    /\ pc' = "in_write"
    /\ CallOp("write", mem_addr)
    /\ UNCHANGED << DATA, mem_addr, page, page_index, data_index, status_ok, vindex,
                    LED, rx, trace, devVars, corrupt, histVars >>

\* write_eeprom has returned: Ok is followed by the read-back
WriteReturned ==
    /\ pc = "in_write" /\ op_pc = "ret"
    /\ flushes' = Append(flushes, FlushRecord(FALSE))
    /\ pc' = IF op_result = "Ok" THEN "readback" ELSE "returned"
    /\ ReturnOp
    /\ UNCHANGED << DATA, mem_addr, page, page_index, data_index, status_ok, vindex,
                    LED, rx, trace, devVars, corrupt, compared >>

\* read_eeprom(&i2c, mem_addr + 4 * vindex, &mut rx)
ReadBack ==
    /\ pc = "readback" /\ op_pc = "idle"
    /\ IF vindex < RecordsPerPage
       THEN pc' = "in_readback" /\ CallOp("read", (mem_addr + 4 * vindex) % U16)
       ELSE pc' = "read_back" /\ UNCHANGED opVars
    /\ UNCHANGED << DATA, mem_addr, page, page_index, data_index, status_ok, vindex,
                    LED, rx, trace, devVars, corrupt, histVars >>

\* one read of the read-back has returned
ReadBackReturned ==
    /\ pc = "in_readback" /\ op_pc = "ret"
    /\ compared' = Append(compared, CompareRecord)
    /\ status_ok' = (status_ok /\ op_result = "Ok")
    /\ vindex' = vindex + 1
    /\ pc' = "readback"
    /\ ReturnOp
    /\ UNCHANGED << DATA, mem_addr, page, page_index, data_index, LED, rx, trace,
                    devVars, corrupt, flushes >>

\* the state in which an operation has just been entered with address a
InitInOp(kind, a) ==
    /\ op_kind = kind /\ op_pc = "check" /\ op_addr = a /\ op_i = 0
    /\ op_result = "none" /\ op_t0 = 0 /\ busy = 0

InitCaller ==
    /\ page = PackPage(DATA)
    /\ page_index = 0
    /\ data_index = 0
    /\ rx = ZeroRx
    /\ status_ok = TRUE
    /\ vindex = 0
    /\ LED = "unset"
    /\ InitDevice
    /\ flushes = << >>
    /\ compared = << >>

InitCall ==
    /\ DATA = StreamOf("bytes", RecordsPerPage)
    /\ InitCaller
    /\ pc = "in_read"
    /\ mem_addr \in 0..(U16 - 1)
    /\ InitInOp("read", mem_addr)

NextCall ==
    \/ ReadReturned
    \/ WriteReturned
    \/ ReadBack
    \/ ReadBackReturned
    \/ OpStep

SpecCall == InitCall /\ [][NextCall]_vars

InitRoundTrip ==
    /\ \E s \in Streams : DATA = StreamOf(s, RecordsPerPage)
    /\ InitCaller
    /\ pc = "in_write"
    /\ mem_addr \in {EEPROM_PAGE_SIZE * n : n \in 0..((U16 \div EEPROM_PAGE_SIZE) - 1)}
    /\ InitInOp("write", mem_addr)

NextRoundTrip ==
    \/ WriteReturned
    \/ ReadBack
    \/ ReadBackReturned
    \/ OpStep

SpecRoundTrip == InitRoundTrip /\ [][NextRoundTrip]_vars

----------------------------------------------------------------------------
(* Properties of the address checks and of single operations *)

\* an operation has reached its return
Returning(kind) == op_kind = kind /\ op_pc = "ret"

\* C1: read_eeprom returns Ok for every address with address + 4 <= 8192 and
\* InvalidMemory for every address with address + 4 > 8192.
C1_ReadAcceptsWholeDevice ==
    Returning("read") =>
        /\ (op_addr + RX_BUFFER_SIZE <= Capacity) => op_result = "Ok"
        /\ (op_addr + RX_BUFFER_SIZE > Capacity) => op_result = "InvalidMemory"

\* C2: write_eeprom returns InvalidMemory if and only if address + 32 > 8192 or
\* address mod 32 # 0, so every page of the device up to the last is accepted.
C2_WriteAcceptsEveryPage ==
    Returning("write") =>
        (op_result = "InvalidMemory" <=>
            (op_addr + EEPROM_PAGE_SIZE > Capacity \/ op_addr % EEPROM_PAGE_SIZE # 0))

\* C3: for every 16-bit address that is not a multiple of 32, write_eeprom
\* returns InvalidMemory, wherever the address lies relative to the capacity:
\* such a call never gets past its address check.
C3_MisalignedWriteRejected ==
    (op_kind = "write" /\ op_addr % EEPROM_PAGE_SIZE # 0) =>
        \/ op_pc = "check"
        \/ op_pc = "ret" /\ op_result = "InvalidMemory"

C3_Witness ==
    /\ Returning("write") /\ op_result = "InvalidMemory"
    /\ op_addr = EEPROM_PAGE_SIZE + 1

\* C4: an operation that returns InvalidMemory has attempted no bus primitive:
\* from its call to its return the bus trace, the device and the caller's
\* receive buffer are as they were; and an operation that has attempted a
\* primitive (completed or answered busy) does not return InvalidMemory.
C4_InvalidMemoryBeforeBus ==
    /\ [](op_result = "InvalidMemory" => (Len(trace) = op_t0 /\ busy = 0))
    /\ []((op_kind # "none" /\ (Len(trace) > op_t0 \/ busy > 0))
             => op_result # "InvalidMemory")
    /\ [][(op_result' = "InvalidMemory" /\ op_result # "InvalidMemory")
             => op_pc = "check"]_vars
    /\ [][(op_pc' = "check" \/ op_result' = "InvalidMemory")
             => UNCHANGED << trace, devVars, rx >>]_vars

\* a page write refused after a read that used the bus and filled rx
C4_Witness ==
    /\ Returning("write") /\ op_result = "InvalidMemory"
    /\ op_t0 > 0 /\ Len(trace) = op_t0
    /\ rx # ZeroRx

\* the four bytes of a page that record j (0-based) occupies
PageSlice(pg, j) == [b \in 1..RX_BUFFER_SIZE |-> pg[RX_BUFFER_SIZE * j + b]]

\* C5: after write_eeprom returned Ok for page P at address A, the device holds
\* P at A..A+31, and each read of the read-back returns Ok and yields the four
\* bytes of P at its offset: the eight reads together yield P byte for byte.
C5_RoundTrip ==
    /\ \A j \in 1..Len(compared) :
          /\ compared[j].addr = mem_addr + RX_BUFFER_SIZE * (j - 1)
          /\ compared[j].bytes = PageSlice(page, j - 1)
    /\ pc \in {"readback", "in_readback", "read_back"} =>
          /\ status_ok
          /\ \A x \in 0..(EEPROM_PAGE_SIZE - 1) : DevByte(mem_addr + x) = page[x + 1]
    /\ pc = "read_back" => Len(compared) = RecordsPerPage

\* the read-back of the last page the write accepts is complete
C5_Witness ==
    /\ pc = "read_back"
    /\ mem_addr = 8128
    /\ Len(compared) = RecordsPerPage
    /\ compared[RecordsPerPage].bytes = << 29, 30, 31, 32 >>

\* whether the address check of the operation in flight refuses its address
CheckRefuses ==
    \/ op_kind = "read" /\ ReadInvalid(op_addr)
    \/ op_kind = "write" /\ WriteInvalid(op_addr)

\* the primitives one read and one page write complete on the bus
ReadPrimitives == 4 + RX_BUFFER_SIZE

WritePrimitives == 3 + EEPROM_PAGE_SIZE + 1

\* C10: whatever transient errors the bus answers, read_eeprom and write_eeprom
\* return Ok or InvalidMemory and nothing else; InvalidMemory comes from the
\* address check alone, before any attempt on the bus; and what an operation
\* returns, the primitives it completed and the bytes a read delivers are
\* decided by its address, not by the number of transient errors.
C10_BusyNeverEscapes ==
    /\ op_result \in {"none", "Ok", "InvalidMemory"}
    /\ op_pc = "ret" =>
          op_result = IF CheckRefuses THEN "InvalidMemory" ELSE "Ok"
    /\ op_result = "InvalidMemory" => (busy = 0 /\ Len(trace) = op_t0)
    /\ (op_pc = "ret" /\ op_result = "Ok") =>
          Len(trace) - op_t0 =
              IF op_kind = "read" THEN ReadPrimitives ELSE WritePrimitives
    /\ (Returning("read") /\ op_result = "Ok") =>
          \A b \in 1..RX_BUFFER_SIZE :
              /\ rx[b] = DevByte(op_addr + b - 1)
              /\ trace[op_t0 + 4 + b].arg = rx[b]

\* a page write returns Ok after as many transient errors as the bound allows
C10_Witness ==
    /\ Returning("write") /\ op_result = "Ok"
    /\ busy = MaxBusy

----------------------------------------------------------------------------
(* Properties of the write-then-verify workflow (Spec) *)

\* the page-fill loop and the final flush are over
WritePhaseDone == pc \in {"verify", "reading", "led", "bkpt"}

FullFlushes == {j \in 1..Len(flushes) : ~flushes[j].final}

FinalFlushes == {j \in 1..Len(flushes) : flushes[j].final}

\* C6: for a stream of k records the page-fill loop makes floor(4k/32) full-page
\* flushes (floor(4n/32) once n records are consumed), one final flush if and
\* only if 4k mod 32 # 0, ceil(4k/32) write operations in all, each returning Ok.
C6_FlushCount ==
    /\ pc = "fill" =>
          /\ Cardinality(FullFlushes) = (4 * data_index) \div EEPROM_PAGE_SIZE
          /\ FinalFlushes = {}
    /\ WritePhaseDone =>
          /\ Cardinality(FullFlushes) = (4 * Len(DATA)) \div EEPROM_PAGE_SIZE
          /\ Cardinality(FinalFlushes) =
                IF (4 * Len(DATA)) % EEPROM_PAGE_SIZE # 0 THEN 1 ELSE 0
          /\ Len(flushes) =
                (4 * Len(DATA) + EEPROM_PAGE_SIZE - 1) \div EEPROM_PAGE_SIZE
    /\ \A j \in 1..Len(flushes) : flushes[j].result = "Ok"

\* nine records: one full page and the final partial page
C6_Witness ==
    /\ pc = "verify"
    /\ Len(DATA) = 9
    /\ Len(flushes) = 2
    /\ ~flushes[1].final /\ flushes[2].final

\* C7: the j-th full page flushed (j = 0, 1, ...) goes to address 32 * j and
\* holds records 8j .. 8j+7, record 8j+i in bytes 4i .. 4i+3, least significant
\* byte first, and an uncorrupted device holds it there; eight records make
\* exactly one flush, at address 0, and the verification of an uncorrupted
\* device then reports success.
C7_BytePacking ==
    /\ \A j \in FullFlushes :
          /\ flushes[j].addr = EEPROM_PAGE_SIZE * (j - 1)
          /\ \A i \in 0..(RecordsPerPage - 1) :
                LET r == DATA[RecordsPerPage * (j - 1) + i + 1]
                    pg == flushes[j].page
                IN /\ \A b \in 1..4 : pg[4 * i + b] \in 0..255
                   /\ r.lo = pg[4 * i + 1] + 256 * pg[4 * i + 2]
                   /\ r.hi = pg[4 * i + 3] + 256 * pg[4 * i + 4]
          /\ corrupt = -1 =>
                \A x \in 0..(EEPROM_PAGE_SIZE - 1) :
                    DevByte(flushes[j].addr + x) = flushes[j].page[x + 1]
    /\ (Len(DATA) = RecordsPerPage /\ WritePhaseDone) =>
          /\ Len(flushes) = 1
          /\ flushes[1].addr = 0
          /\ ~flushes[1].final
    /\ (Len(DATA) = RecordsPerPage /\ pc = "bkpt" /\ corrupt = -1) =>
          (status_ok /\ LED = "on")

\* the records 1 .. 8, written and verified
C7_Witness ==
    /\ pc = "bkpt" /\ LED = "on"
    /\ DATA = StreamOf("count", RecordsPerPage)
    /\ Len(flushes) = 1
    /\ flushes[1].page[1] = 1 /\ flushes[1].page[2] = 0 /\ flushes[1].page[5] = 2

\* the verification loop is over
VerifyOver == pc \in {"led", "bkpt"}

\* C8: the verification loop ends with status_ok true if and only if every
\* record was read back and every read-back value equals the written value;
\* if some read-back differs, it ends with status_ok false.
C8_VerifyResult ==
    VerifyOver =>
        /\ status_ok <=>
              /\ Len(compared) = Len(DATA)
              /\ \A j \in 1..Len(compared) :
                    /\ compared[j].index = j - 1
                    /\ compared[j].written = DATA[j]
                    /\ compared[j].read = compared[j].written
        /\ (\E j \in 1..Len(compared) : compared[j].read # compared[j].written)
              => ~status_ok

\* record 5 of eight was lost by the device: the verification fails
C8_Witness ==
    /\ VerifyOver /\ ~status_ok
    /\ Len(DATA) = RecordsPerPage
    /\ Len(compared) = 6
    /\ compared[6].read # compared[6].written

\* C9: when the read-back of record i is the first that differs, the loop stops
\* at i with failure: records 0 .. i-1 were compared and equal, record i is the
\* last one compared, and from then on no operation is called, no primitive
\* is issued and no comparison is made.
C9_ShortCircuit ==
    /\ [](~status_ok =>
            /\ VerifyOver
            /\ op_kind = "none"
            /\ compared # << >>
            /\ compared[Len(compared)].index = vindex
            /\ Len(compared) = vindex + 1
            /\ compared[Len(compared)].read # compared[Len(compared)].written
            /\ \A j \in 1..(Len(compared) - 1) :
                  compared[j].read = compared[j].written)
    /\ [][~status_ok =>
            /\ ~status_ok'
            /\ UNCHANGED << trace, compared, vindex, opVars, rx >>]_vars

\* record 5 of eight differs: the loop has stopped there
C9_Witness ==
    /\ pc = "bkpt" /\ ~status_ok
    /\ Len(DATA) = RecordsPerPage
    /\ vindex = 5
    /\ Len(compared) = 6

----------------------------------------------------------------------------
(* The order of the primitives inside one operation (SpecCall) *)

\* what the operation in flight has completed on the bus so far
Segment == SubSeq(trace, op_t0 + 1, Len(trace))

\* the address phase and the repeated start of read_eeprom(a)
ReadHead(a) ==
    << Entry("start", SelWrite), Entry("write", HighByte(a)),
       Entry("write", LowByte(a)), Entry("start", SelRead) >>

ByteReads == {"read_ack", "read_nack"}

\* C12: the primitives a valid read_eeprom(address) completes are, in order,
\* start(0xa0), write(address >> 8), write(address mod 256), start(0xa1) and
\* then 4 byte reads; the two address bytes go most-significant first and
\* recombine to the address; the second start follows the address phase with
\* no stop in between, and no stop is issued anywhere in the read.
C12_ReadOrder ==
    op_kind = "read" =>
        /\ Len(Segment) <= ReadPrimitives
        /\ \A j \in 1..Len(Segment) :
              /\ j <= 4 => Segment[j] = ReadHead(op_addr)[j]
              /\ j > 4 => Segment[j].prim \in ByteReads
              /\ Segment[j].prim # "stop"
        /\ Len(Segment) >= 3 =>
              Segment[2].arg * 256 + Segment[3].arg = op_addr
        /\ (op_pc = "ret" /\ op_result = "Ok") =>
              Len(Segment) = ReadPrimitives

\* a read of an address with two different, non-zero address bytes returned Ok
C12_Witness ==
    /\ Returning("read") /\ op_result = "Ok"
    /\ op_addr = 8187
    /\ Len(Segment) = ReadPrimitives

\* the byte reads the operation in flight has completed
NackReads == {j \in 1..Len(Segment) : Segment[j].prim = "read_nack"}

\* a primitive of the read loop answered with a transient error
BusyAtRead == op_kind = "read" /\ op_pc = "read" /\ trace' = trace

\* C13: in a read, the byte of index 3 and no other is obtained by read_nack,
\* the bytes of index 0..2 by read_ack; the byte obtained for index i is
\* stored in rx_buffer[i], so that the buffer holds the device bytes at
\* address .. address+3 in order; a busy answer at index i leaves the index
\* and the buffer alone, and the same kind of read is attempted again.
C13_AckDiscipline ==
    /\ [](op_kind = "read" =>
            /\ op_pc = "read" => Len(Segment) = 4 + op_i
            /\ \A j \in 5..Len(Segment) :
                  /\ Segment[j].prim =
                        IF j - 5 = 3 THEN "read_nack" ELSE "read_ack"
                  /\ rx[j - 4] = Segment[j].arg
                  /\ rx[j - 4] = DevByte(op_addr + j - 5)
            /\ Cardinality(NackReads) =
                  IF op_pc = "ret" /\ op_result = "Ok" THEN 1 ELSE 0)
    /\ [][BusyAtRead =>
            /\ op_pc' = "read" /\ op_i' = op_i /\ rx' = rx
            /\ IsLastByte(op_i') = IsLastByte(op_i)]_vars

\* a read returned Ok after transient errors, with four different bytes
C13_Witness ==
    /\ Returning("read") /\ op_result = "Ok"
    /\ busy = MaxBusy
    /\ Cardinality({rx[b] : b \in 1..RX_BUFFER_SIZE}) = RX_BUFFER_SIZE

\* what write_eeprom(a, pg) is to complete on the bus, in order
WriteScript(a, pg) ==
    << Entry("start", SelWrite), Entry("write", HighByte(a)),
       Entry("write", LowByte(a)) >>
    \o [j \in 1..EEPROM_PAGE_SIZE |-> Entry("write", pg[j])]
    \o << Entry("stop", 0) >>

PrimitivesOf(p) == {j \in 1..Len(Segment) : Segment[j].prim = p}

\* the data bytes the write in flight has sent
DataSent == {j \in PrimitivesOf("write") : j > 3}

\* C14: the primitives a valid write_eeprom(address, page) completes are, in
\* order, start(0xa0), write(address >> 8), write(address mod 256),
\* write(page[0]) .. write(page[31]), stop; there is one start and one stop,
\* the stop is the last primitive, and it never comes after fewer than 32
\* data bytes.
C14_WriteOrder ==
    op_kind = "write" =>
        /\ Len(Segment) <= WritePrimitives
        /\ \A j \in 1..Len(Segment) :
              Segment[j] = WriteScript(op_addr, page)[j]
        /\ Cardinality(PrimitivesOf("start")) <= 1
        /\ \A j \in PrimitivesOf("stop") :
              /\ j = Len(Segment)
              /\ Cardinality(DataSent) = EEPROM_PAGE_SIZE
        /\ (op_pc = "ret" /\ op_result = "Ok") =>
              /\ Len(Segment) = WritePrimitives
              /\ Cardinality(PrimitivesOf("start")) = 1
              /\ Cardinality(PrimitivesOf("stop")) = 1

\* a page of 32 different bytes written at 0x1220 returned Ok
C14_Witness ==
    /\ Returning("write") /\ op_result = "Ok"
    /\ op_addr = 4640
    /\ Cardinality({page[j] : j \in 1..EEPROM_PAGE_SIZE}) = EEPROM_PAGE_SIZE
    /\ PrimitivesOf("stop") = {WritePrimitives}

\* what read_eeprom(a) completes on the bus when no primitive is ever busy
ReadScript(a) ==
    ReadHead(a)
    \o [i \in 1..RX_BUFFER_SIZE |->
          Entry(IF i = RX_BUFFER_SIZE THEN "read_nack" ELSE "read_ack",
                DevByte(a + i - 1))]

\* the run of the operation in flight in which no primitive is ever busy
NoBusyRun ==
    IF op_kind = "read" THEN ReadScript(op_addr) ELSE WriteScript(op_addr, page)

\* C15: whatever the pattern of transient errors, the primitives an
\* operation completes, with their arguments, are those of the run without
\* any transient error; a transient error leaves the operation at the same
\* primitive with the same argument, and a completed primitive adds exactly
\* one entry after the ones before it: nothing is skipped, repeated or
\* reordered.
C15_RetryInvisible ==
    /\ []((op_kind # "none" /\ ~CheckRefuses) =>
            /\ Len(Segment) <= Len(NoBusyRun)
            /\ Segment = SubSeq(NoBusyRun, 1, Len(Segment))
            /\ (op_pc = "ret") = (Segment = NoBusyRun))
    /\ [][(Retrying /\ trace' = trace) =>
            UNCHANGED << op_kind, op_pc, op_addr, op_i, op_result, rx, page,
                         devVars >>]_vars
    /\ [][(Retrying /\ trace' # trace) =>
            /\ Len(trace') = Len(trace) + 1
            /\ SubSeq(trace', 1, Len(trace)) = trace
            /\ op_pc' # op_pc \/ op_i' = op_i + 1]_vars

\* the last page of the device written after transient errors
C15_Witness ==
    /\ Returning("write") /\ op_result = "Ok"
    /\ busy = MaxBusy
    /\ op_addr = 8128
    /\ Segment = NoBusyRun

----------------------------------------------------------------------------
(* The page-fill loop and the final flush (Spec) *)

\* a flush of the workflow is in flight
Flushing == pc \in {"flush", "flush_final"}

\* write_eeprom returns Ok to the page-fill loop
FullFlushDone == pc = "flush" /\ pc' = "fill"

\* C16: the n-th flush of a run (n = 0, 1, ...), the final partial one
\* included, is issued at device address 32 * n: flush addresses are
\* page-aligned and go up by exactly one page, no page is written twice and
\* none is skipped; the fill offset is reset to 0 and the address advanced
\* by 32 once per full-page flush, and at no other step.
C16_FlushAddresses ==
    /\ [](/\ \A j \in 1..Len(flushes) :
               flushes[j].addr = EEPROM_PAGE_SIZE * (j - 1)
          /\ Flushing =>
               /\ op_addr = EEPROM_PAGE_SIZE * Len(flushes)
               /\ op_addr = mem_addr
          /\ pc = "flush" => page_index = 0
          /\ pc = "fill" =>
               /\ mem_addr = EEPROM_PAGE_SIZE * Cardinality(FullFlushes)
               /\ page_index = (4 * data_index) % EEPROM_PAGE_SIZE)
    /\ [][FullFlushDone =>
            /\ mem_addr' = mem_addr + EEPROM_PAGE_SIZE
            /\ page_index' = 0]_vars
    /\ [][mem_addr' # mem_addr => FullFlushDone]_vars

\* seventeen records: pages 0 and 32 flushed full, the final flush is at 64
C16_Witness ==
    /\ pc = "verify"
    /\ Len(flushes) = 3
    /\ flushes[3].final /\ flushes[3].addr = 2 * EEPROM_PAGE_SIZE

\* byte b (1-based) of the page that starts at record `first` (0-based)
EncodedByte(first, b) ==
    ToLeBytes(DATA[first + ((b - 1) \div RX_BUFFER_SIZE) + 1])
        [((b - 1) % RX_BUFFER_SIZE) + 1]

\* the final flush as it is called and as the history keeps it
FinalPage(pg, before) ==
    /\ \A b \in 1..RemainderLen :
          pg[b] = EncodedByte(Len(DATA) - RemainderLen \div RX_BUFFER_SIZE, b)
    /\ \A b \in (RemainderLen + 1)..EEPROM_PAGE_SIZE :
          pg[b] = IF Len(before) = 0 THEN 0 ELSE before[Len(before)].page[b]

\* C17: when the stream ends with fill offset r, 0 < r < 32, the final flush
\* writes the whole 32-byte buffer: bytes 0..r-1 are the little-endian
\* encodings of the trailing records, bytes r..31 are the bytes at the same
\* positions of the page flushed before (0 if there was none); the buffer is
\* never cleared: only the four bytes of the record being stored change.
C17_StaleTail ==
    /\ [](/\ pc = "flush_final" =>
               /\ RemainderLen > 0 /\ RemainderLen = page_index
               /\ FinalPage(page, flushes)
               /\ op_pc = "ret" => Segment = WriteScript(op_addr, page)
          /\ \A j \in FinalFlushes :
               /\ j = Len(flushes)
               /\ FinalPage(flushes[j].page, SubSeq(flushes, 1, j - 1)))
    /\ [][\A b \in 1..EEPROM_PAGE_SIZE :
            page'[b] # page[b] =>
               /\ pc = "fill"
               /\ b > page_index /\ b <= page_index + RX_BUFFER_SIZE]_vars

\* nine records: the final page goes out with record 9 in bytes 0..3 and
\* record 2 of the first page, not zero, still in bytes 4..7
C17_Witness ==
    /\ pc = "flush_final" /\ op_pc = "ret" /\ op_result = "Ok"
    /\ Len(flushes) = 1
    /\ RemainderLen = RX_BUFFER_SIZE
    /\ page[5] = flushes[1].page[5] /\ page[5] # 0

----------------------------------------------------------------------------
(* Streams the device cannot hold (SpecFatal) *)

\* the records that fill the device to its last byte
DeviceRecords == Capacity \div RX_BUFFER_SIZE

\* the records whose byte offsets take more than 16 bits
WrapRecords == U16 \div RX_BUFFER_SIZE + 1

\* a stream that fits, one whose final partial flush is the last page of the
\* device, one whose last full-page flush is, and one long enough for the
\* byte offset of its last record to leave the 16 bits of an address
FatalLengths == {MaxLiveRecords, DeviceRecords - 7, DeviceRecords, WrapRecords}

\* page n (0-based) of the stream, as the page-fill loop packs it
PageOf(n) == [b \in 1..EEPROM_PAGE_SIZE |-> EncodedByte(RecordsPerPage * n, b)]

\* the page-fill loop after its n-th full-page flush has returned Ok: its
\* locals, the device and what the run has done on the bus up to there
AfterPages(n) ==
    /\ pc = "fill"
    /\ mem_addr = EEPROM_PAGE_SIZE * n
    /\ page = PageOf(n - 1)
    /\ page_index = 0
    /\ data_index = RecordsPerPage * n
    /\ rx = ZeroRx
    /\ status_ok = TRUE
    /\ vindex = 0
    /\ LED = "unset"
    /\ InitOp
    /\ trace = [i \in 1..(WritePrimitives * n) |->
                  WriteScript(EEPROM_PAGE_SIZE * ((i - 1) \div WritePrimitives),
                              PageOf((i - 1) \div WritePrimitives))
                      [((i - 1) % WritePrimitives) + 1]]
    /\ dev_mem = [a \in 0..(EEPROM_PAGE_SIZE * n - 1) |->
                    PageOf(a \div EEPROM_PAGE_SIZE)[(a % EEPROM_PAGE_SIZE) + 1]]
    /\ dev_cursor = EEPROM_PAGE_SIZE * (n - 1)
    /\ dev_state = "idle"
    /\ corrupt = -1
    /\ flushes = [j \in 1..n |->
                    [addr |-> EEPROM_PAGE_SIZE * (j - 1), page |-> PageOf(j - 1),
                     final |-> FALSE, result |-> "Ok",
                     records |-> RecordsPerPage * j]]
    /\ compared = << >>

\* the pages of the long streams that are already on the device at the start
PagesDone == DeviceRecords \div RecordsPerPage - 1

\* the short stream from the entry of idle; the long ones from the state the
\* page-fill loop is in when all pages but the last are written
InitFatal ==
    \E k \in FatalLengths :
        /\ DATA = StreamOf("count", k)
        /\ IF k > MaxLiveRecords THEN AfterPages(PagesDone) ELSE InitIdle

SpecFatal == InitFatal /\ [][Next]_vars

\* a flush of the workflow has returned InvalidMemory
FlushFailed ==
    \E j \in 1..Len(flushes) : flushes[j].result = "InvalidMemory"

\* C18: if a flush, full-page or final, returns InvalidMemory the workflow
\* stops there: no later page is written, no verification read is issued
\* and the pass/fail indicator is never set.
C18_FlushFatal ==
    /\ []((Flushing /\ op_pc = "ret" /\ op_result = "InvalidMemory") =>
            ~ENABLED (Next /\ pc' # "panic"))
    /\ [](FlushFailed =>
            /\ pc = "panic" /\ op_kind = "none"
            /\ flushes[Len(flushes)].result = "InvalidMemory"
            /\ \A j \in 1..(Len(flushes) - 1) : flushes[j].result = "Ok"
            /\ compared = << >> /\ vindex = 0
            /\ \A j \in 1..Len(trace) : trace[j] # Entry("start", SelRead)
            /\ LED = "unset")
    /\ [][pc = "panic" => UNCHANGED vars]_vars

\* the final flush of 2041 records was refused at the last page of the device
C18_Witness ==
    /\ pc = "panic" /\ FlushFailed
    /\ flushes[Len(flushes)].final
    /\ flushes[Len(flushes)].addr = Capacity - EEPROM_PAGE_SIZE

----------------------------------------------------------------------------
(* The order of the workflow (Spec) *)

\* where in the bus log the page writes end and the reads turn the bus round
StopsAt == {j \in 1..Len(trace) : trace[j].prim = "stop"}

ReadsAt == {j \in 1..Len(trace) : trace[j] = Entry("start", SelRead)}

\* the pages a stream of k records takes
PagesFor(k) == (4 * k + EEPROM_PAGE_SIZE - 1) \div EEPROM_PAGE_SIZE

\* C20: every page write completes before the first verification read
\* starts; the verification reads are issued in stream order, record i at
\* device address 4 * i; nothing is retried at the level of the workflow:
\* each page address is written at most once and each record is read at
\* most once in a run.
C20_WorkflowOrder ==
    /\ [](/\ \A i \in StopsAt : \A j \in ReadsAt : i < j
          /\ op_kind = "read" =>
               /\ pc = "reading"
               /\ Len(flushes) = PagesFor(Len(DATA))
               /\ op_addr = 4 * vindex
               /\ Len(compared) = vindex
          /\ Flushing => (compared = << >> /\ vindex = 0)
          /\ \A j \in 1..Len(compared) :
               /\ compared[j].index = j - 1
               /\ compared[j].addr = 4 * (j - 1)
          /\ \A i, j \in 1..Len(flushes) :
               flushes[i].addr = flushes[j].addr => i = j
          /\ Cardinality(StopsAt) =
               Len(flushes) + (IF Flushing /\ op_pc = "ret" THEN 1 ELSE 0)
          /\ Cardinality(ReadsAt) =
               Len(compared)
               + (IF pc = "reading" /\ op_pc \in {"read", "ret"} THEN 1 ELSE 0))
    /\ [][flushes' # flushes => (ReadsAt = {} /\ compared = << >>)]_vars
    /\ [][vindex' # vindex => vindex' = vindex + 1]_vars

\* seventeen records written in three pages, then read back one by one
C20_Witness ==
    /\ pc = "bkpt" /\ LED = "on"
    /\ Len(flushes) = 3
    /\ Len(compared) = 17
    /\ compared[17].addr = 64

----------------------------------------------------------------------------
(* One operation on the bus at a time (Spec) *)

\* where in the bus log an operation begins
StartsAt == {j \in 1..Len(trace) : trace[j] = Entry("start", SelWrite)}

\* the primitives that release the bus
Releases == {"stop", "read_nack"}

\* the length of the operation that begins at j: a read turns the bus round
\* after the address phase, a write does not
BlockLen(j) ==
    IF j + 3 <= Len(trace) /\ trace[j + 3] = Entry("start", SelRead)
    THEN ReadPrimitives ELSE WritePrimitives

\* the operation that begins at j is one block of the log: nothing inside
\* it begins another operation or releases the bus, its last primitive
\* releases the bus, the next operation begins right after it, and if it is
\* unfinished it is the operation in flight
BlockOk(j) ==
    LET last == j + BlockLen(j) - 1
    IN  /\ trace[j] = Entry("start", SelWrite)
        /\ j > 1 => trace[j - 1].prim \in Releases
        /\ \A i \in (j + 1)..(last - 1) :
              i <= Len(trace) =>
                 /\ trace[i] # Entry("start", SelWrite)
                 /\ trace[i].prim \notin Releases
        /\ last <= Len(trace) =>
              trace[last].prim =
                 IF BlockLen(j) = ReadPrimitives THEN "read_nack" ELSE "stop"
        /\ last < Len(trace) => trace[last + 1] = Entry("start", SelWrite)
        /\ last > Len(trace) => (op_kind # "none" /\ op_t0 = j - 1)

\* no operation is between its first and its last primitive
BusQuiet == op_kind = "none" \/ op_pc \in {"check", "ret"}

\* C21: in the bus log of the workflow the primitives of each operation are
\* one contiguous block: an operation begins where the one before it ended,
\* and that one ended with the primitive that releases the bus (stop for a
\* write, read_nack for a read); only one operation is ever in flight, and
\* an operation that returns Ok has just released the bus.
C21_OneInFlight ==
    /\ [](/\ BusQuiet =>
               /\ Len(trace) > 0 => 1 \in StartsAt
               /\ \A j \in StartsAt : BlockOk(j)
               /\ Len(trace) > 0 => trace[Len(trace)].prim \in Releases
          /\ (~BusQuiet /\ Len(trace) > op_t0) =>
               /\ BlockOk(op_t0 + 1)
               /\ Len(trace) - op_t0 <= BlockLen(op_t0 + 1)
          /\ (op_pc = "ret" /\ op_result = "Ok") =>
               trace[Len(trace)].prim =
                  IF op_kind = "read" THEN "read_nack" ELSE "stop")
    /\ [][op_kind' # op_kind => (op_kind = "none" \/ op_kind' = "none")]_vars
    /\ [][(~BusQuiet /\ trace' # trace) =>
            (Len(trace') = Len(trace) + 1 /\ op_t0' = op_t0)]_vars

\* the second verification read has made its start right after the
\* read_nack of the first
C21_Witness ==
    /\ op_kind = "read" /\ op_pc = "addr_hi"
    /\ vindex = 1
    /\ Len(trace) = op_t0 + 1
    /\ trace[op_t0].prim = "read_nack"

----------------------------------------------------------------------------
(* Termination of the workflow (SpecLive) *)

\* a step of the program that does not wait for the bus
ProgramStep ==
    \/ FillRecord
    \/ FlushReturn
    \/ FillDone
    \/ FinalFlushReturn
    \/ VerifyNext
    \/ VerifyReturn
    \/ VerifyDone
    \/ SetLed
    \/ ReadValidate
    \/ WriteValidate

\* the primitive the operation is retrying reports non-busy
Completed == OpStep /\ trace' # trace

\* the primitive the operation is retrying reports busy once more
BusyAnswer == OpStep /\ UNCHANGED << op_pc, trace >>

InitLive == Init /\ Len(DATA) <= MaxLiveRecords

\* the single thread of control keeps running, and a primitive that is retried
\* forever eventually reports non-busy
SpecLive ==
    InitLive /\ [][Next]_vars /\ WF_vars(ProgramStep) /\ WF_vars(Completed)

\* the same without the assumption on the bus
SpecStuck == InitLive /\ [][Next]_vars /\ WF_vars(ProgramStep)

\* the workflow is in its terminal loop with the indicator set
Finished == pc = "bkpt" /\ LED # "unset" /\ op_kind = "none"

\* C11: if every primitive that is retried forever eventually reports non-busy,
\* every read_eeprom and write_eeprom call returns and the workflow reaches its
\* final state with the indicator set; and nothing caps the retries: wherever
\* an operation retries a primitive, one more busy answer leaves it there.
C11_EventuallyFinished ==
    /\ <>Finished
    /\ [](op_kind # "none" => <>(op_pc = "ret"))
    /\ [](Retrying => ENABLED BusyAnswer)

\* nine records written in two pages and verified: the terminal loop, LED on
C11_Witness ==
    /\ Finished /\ LED = "on"
    /\ Len(flushes) = 2
    /\ Len(compared) = 9

\* every record was read back and equals what was written
VerifiedAll ==
    /\ Len(compared) = Len(DATA)
    /\ \A j \in 1..Len(compared) : compared[j].read = compared[j].written

\* C22: once the verification loop has ended the indicator is set, exactly
\* once: on if and only if the verification succeeded, off otherwise; from
\* then on the workflow is in its terminal loop, where nothing changes any
\* more and no bus primitive is issued.
C22_PassFailSignal ==
    /\ [](LED # "unset" =>
            /\ pc = "bkpt" /\ op_kind = "none"
            /\ LED \in {"on", "off"}
            /\ (LED = "on") = status_ok
            /\ (LED = "on") = VerifiedAll)
    /\ [](pc = "bkpt" => LED # "unset")
    /\ [][LED' # LED => (LED = "unset" /\ pc = "led")]_vars
    /\ [][pc = "bkpt" => UNCHANGED vars]_vars
    /\ [](pc = "led" => <>(pc = "bkpt"))

\* a record came back changed: the indicator is off in the terminal loop
C22_Witness ==
    /\ pc = "bkpt" /\ LED = "off"
    /\ ~status_ok /\ corrupt >= 0
    /\ Len(compared) < Len(DATA)

\* one iteration of the page-fill loop has stored its record
RecordStored == pc = "fill" /\ data_index' = data_index + 1

\* C23: at the start of every iteration of the page-fill loop page_index is
\* a multiple of 4 with 0 <= page_index <= 28, so the copy into
\* page[page_index .. page_index + 4] stays inside the buffer; the page is
\* flushed exactly when page_index reaches 32; after the loop page_index is
\* 4k mod 32, so that the remainder test of the final flush agrees with
\* 'the fill offset is not zero'.
C23_FillOffset ==
    /\ [](/\ page_index % RX_BUFFER_SIZE = 0
          /\ page_index >= 0
          /\ page_index <= EEPROM_PAGE_SIZE - RX_BUFFER_SIZE
          /\ pc # "panic"
          /\ pc = "fill" => page_index = (4 * data_index) % EEPROM_PAGE_SIZE
          /\ (pc = "flush_final" \/ WritePhaseDone) =>
               /\ page_index = (4 * Len(DATA)) % EEPROM_PAGE_SIZE
               /\ (RemainderLen > 0) = (page_index # 0)
          /\ pc = "flush_final" => page_index # 0
          /\ WritePhaseDone => (page_index # 0) = (FinalFlushes # {}))
    /\ [][RecordStored =>
            /\ (pc' = "flush") = (page_index + RX_BUFFER_SIZE = EEPROM_PAGE_SIZE)
            /\ pc' = "fill" => page_index' = page_index + RX_BUFFER_SIZE
            /\ \A b \in 1..RX_BUFFER_SIZE :
                  page'[page_index + b] = ToLeBytes(DATA[data_index + 1])[b]]_vars

\* the sixteenth record is about to go into the last four bytes of the buffer
C23_Witness ==
    /\ pc = "fill"
    /\ page_index = EEPROM_PAGE_SIZE - RX_BUFFER_SIZE
    /\ data_index = 15 /\ data_index < Len(DATA)

----------------------------------------------------------------------------
(* The record table the program is built with (SpecShipped) *)

\* const DATA: [u32; 2000]
ShippedRecords == 2000

\* the pages the table fills, none of them partly
ShippedPages == ShippedRecords \div RecordsPerPage

\* the bus log of the n-th verification read (0-based) of an intact device
ReadLog(n) ==
    ReadHead(RecordAddr(n))
    \o [i \in 1..RX_BUFFER_SIZE |->
          Entry(IF i = RX_BUFFER_SIZE THEN "read_nack" ELSE "read_ack",
                ToLeBytes(DATA[n + 1])[i])]

\* the verification loop of a stream of whole pages after its n-th read has
\* returned Ok and compared equal: the locals of idle, the device and what
\* the run has done on the bus up to there
AfterReads(n) ==
    LET pages == Len(DATA) \div RecordsPerPage
        written == WritePrimitives * pages
    IN  /\ pc = "verify"
        /\ mem_addr = EEPROM_PAGE_SIZE * pages
        /\ page = PageOf(pages - 1)
        /\ page_index = 0
        /\ data_index = Len(DATA)
        /\ rx = ToLeBytes(DATA[n])
        /\ status_ok = TRUE
        /\ vindex = n
        /\ LED = "unset"
        /\ InitOp
        /\ trace = [i \in 1..(written + ReadPrimitives * n) |->
                      IF i <= written
                      THEN WriteScript(
                               EEPROM_PAGE_SIZE * ((i - 1) \div WritePrimitives),
                               PageOf((i - 1) \div WritePrimitives))
                               [((i - 1) % WritePrimitives) + 1]
                      ELSE ReadLog((i - written - 1) \div ReadPrimitives)
                               [((i - written - 1) % ReadPrimitives) + 1]]
        /\ dev_mem = [a \in 0..(EEPROM_PAGE_SIZE * pages - 1) |->
                        PageOf(a \div EEPROM_PAGE_SIZE)[(a % EEPROM_PAGE_SIZE) + 1]]
        /\ dev_cursor = RX_BUFFER_SIZE * n
        /\ dev_state = "idle"
        /\ corrupt = -1
        /\ flushes = [j \in 1..pages |->
                        [addr |-> EEPROM_PAGE_SIZE * (j - 1),
                         page |-> PageOf(j - 1), final |-> FALSE,
                         result |-> "Ok", records |-> RecordsPerPage * j]]
        /\ compared = [j \in 1..n |->
                         [index |-> j - 1, addr |-> RecordAddr(j - 1),
                          bytes |-> ToLeBytes(DATA[j]), read |-> DATA[j],
                          written |-> DATA[j]]]

\* the reads of the table that are already made at the start
ReadsDone == ShippedRecords - 1

\* a short stream from the entry of idle; the table from the state the
\* verification loop is in when all its reads but the last one are made
InitShipped ==
    \/ /\ DATA = StreamOf("count", MaxLiveRecords)
       /\ InitIdle
    \/ /\ DATA = StreamOf("count", ShippedRecords)
       /\ AfterReads(ReadsDone)

SpecShipped == InitShipped /\ [][Next]_vars

\* the run is the one of the table
Shipped == Len(DATA) = ShippedRecords

\* C24: for the table of 2000 records every flush and every verification
\* read passes the address check, so the workflow never aborts and skips no
\* record: 250 page writes at 0, 32, .., 7968, no final partial flush, and
\* up to 2000 reads at 0, 4, .., 7996.
C24_ShippedTable ==
    Shipped =>
        /\ \A n \in 0..(ShippedPages - 1) : ~WriteInvalid(EEPROM_PAGE_SIZE * n)
        /\ \A i \in 0..(ShippedRecords - 1) : ~ReadInvalid(RecordAddr(i))
        /\ RemainderLen = 0
        /\ pc \notin {"panic", "flush_final"}
        /\ op_pc = "ret" => op_result = "Ok"
        /\ WritePhaseDone =>
              /\ Len(flushes) = ShippedPages
              /\ \A j \in 1..Len(flushes) :
                    /\ flushes[j].addr = EEPROM_PAGE_SIZE * (j - 1)
                    /\ flushes[j].result = "Ok" /\ ~flushes[j].final
              /\ flushes[ShippedPages].addr = 7968
        /\ Len(compared) <= ShippedRecords
        /\ pc = "verify" => Len(compared) = vindex
        /\ \A j \in 1..Len(compared) : compared[j].addr = 4 * (j - 1)
        /\ pc = "bkpt" =>
              /\ Len(compared) = ShippedRecords
              /\ compared[ShippedRecords].addr = 7996
              /\ LED = "on"

\* after the 250 page writes and 1999 reads the read of the last record of
\* the table, at 7996, has passed the address check and goes on the bus
C24_Witness ==
    /\ Shipped
    /\ pc = "reading" /\ op_pc = "start"
    /\ op_addr = 7996 /\ vindex = 1999
    /\ Len(flushes) = 250

----------------------------------------------------------------------------
(* The 16-bit addresses of the workflow (SpecFatal) *)

\* the address the verification loop computes for the record it is at
Verifying == pc \in {"verify", "reading"} /\ vindex < Len(DATA)

\* C25: whatever the length of the stream, no 16-bit computation of the
\* workflow wraps: the write address, advanced by 32 per flush, and the
\* verification address data_index * 4 stay below 65536 in every reachable
\* state, because a flush beyond the capacity of the device stops the
\* workflow before the address grows further and before the verification
\* starts; the bounds 0x1fff - 4 and 0x1fff - 32 do not underflow.
C25_NoWrap ==
    /\ [](/\ mem_addr + EEPROM_PAGE_SIZE < U16
          /\ mem_addr <= Capacity - EEPROM_PAGE_SIZE
          /\ NextPageAddr(mem_addr) = mem_addr + EEPROM_PAGE_SIZE
          /\ Flushing => op_addr = mem_addr
          /\ (Flushing /\ Retrying) => op_addr <= MemTop - EEPROM_PAGE_SIZE
          /\ Verifying =>
               /\ vindex < U16
               /\ vindex * RX_BUFFER_SIZE < U16
               /\ RecordAddr(vindex) = vindex * RX_BUFFER_SIZE
               /\ RecordAddr(vindex) <= MemTop - RX_BUFFER_SIZE
          /\ pc = "reading" => op_addr = vindex * RX_BUFFER_SIZE
          /\ Len(DATA) > DeviceRecords - RecordsPerPage =>
               pc \in {"fill", "flush", "flush_final", "panic"}
          /\ MemTop - RX_BUFFER_SIZE > 0
          /\ MemTop - EEPROM_PAGE_SIZE > 0)
    /\ [][mem_addr' # mem_addr =>
            mem_addr' = mem_addr + EEPROM_PAGE_SIZE]_vars

\* a stream of 16385 records, whose last byte offset is 65536, was stopped
\* at the last page of the device
C25_Witness ==
    /\ Len(DATA) = WrapRecords
    /\ pc = "panic"
    /\ mem_addr = Capacity - EEPROM_PAGE_SIZE
    /\ data_index = DeviceRecords

====
